---- MODULE Spec2Model ----
(***************************************************************************)
(* DDPG agent of dev/ddpg/ddpg_agent.py: the network triplet and its       *)
(* weight copies, train_actor_critic, and the single-process and           *)
(* multi-process coordinators (single_learn, multi_learn).                 *)
(*                                                                         *)
(* Real numbers are fixed-point integers.  tau is counted in units of      *)
(* 1/TauDen, weights in units of 1/Scale where Scale = TauDen^MaxTrain, so *)
(* that MaxTrain successive interpolations are exact.  Tensors are         *)
(* scalars: every weight operation of the code is element-wise.            *)
(***************************************************************************)
EXTENDS Integers, Sequences, FiniteSets, TLC

\* ------------------------------------------------------------------ bounds

\* largest total_episodes handed to learn()
MaxEpisodes == 2
\* largest config["max_steps"] explored
MaxStepsBound == 2
\* train steps that pass the warm-up gate before the model stops exploring
MaxTrain == 2
\* sampler processes of multi_learn (config["num_samplers"])
NumSamplers == 2
\* episodes each sampler process runs before it exits
WorkerEpisodes == 1

\* tau = k/TauDen; TauDen stands for 1.0
TauDen == 2

RECURSIVE Pow(_, _)
Pow(b, e) == IF e = 0 THEN 1 ELSE b * Pow(b, e - 1)

Scale == Pow(TauDen, MaxTrain)

Min(a, b) == IF a <= b THEN a ELSE b
Max(a, b) == IF a >= b THEN a ELSE b

\* the n last entries of a sequence
LastN(sq, n) == SubSeq(sq, Len(sq) - n + 1, Len(sq))

\* ------------------------------------------------------------ configuration

\* config["tau"] in units of 1/TauDen: 0, 1/TauDen, 1.0 (interpolation) and
\* the period 2.0
TauValues == {0, 1, TauDen, 2 * TauDen}

\* config["gamma"] is counted in units of 1/TauDen, like tau

\* configurations that vary the target update
NetConfigs ==
    [tau : TauValues,
     use_bn : BOOLEAN,
     memory_warmup : {0, 2},
     train_every : {1},
     max_steps : {MaxStepsBound},
     clip_noise : {-1},
     batch_size : {1},
     memory_capacity : {2},
     save_snapshot_every : {1},
     queue_size : {2},
     force_overwrite : {FALSE},
     gamma : {1},
     reward_scale : {2}]

\* configurations that vary the coordinator's loop
LoopConfigs ==
    [tau : {1},
     use_bn : {TRUE},
     memory_warmup : {0, 2},
     train_every : {1, 2},
     max_steps : 1..MaxStepsBound,
     clip_noise : {-1, 1},
     batch_size : {1},
     memory_capacity : {2},
     save_snapshot_every : {1},
     queue_size : {2},
     force_overwrite : {FALSE},
     gamma : {1},
     reward_scale : {2}]

Configs == NetConfigs \cup LoopConfigs

\* configurations run with single_learn's force_learn argument set
ForceConfigs ==
    [tau : {1},
     use_bn : {TRUE},
     memory_warmup : {0, 2},
     train_every : {1},
     max_steps : {MaxStepsBound},
     clip_noise : {-1},
     batch_size : {1},
     memory_capacity : {3},
     save_snapshot_every : {1},
     queue_size : {2},
     force_overwrite : {FALSE},
     gamma : {1},
     reward_scale : {2}]

\* configurations of the multi-process coordinator
MultiConfigs ==
    [tau : {1},
     use_bn : {TRUE},
     memory_warmup : {0, 3},
     train_every : {1},
     max_steps : {MaxStepsBound},
     clip_noise : {-1},
     batch_size : {1},
     memory_capacity : {3},
     save_snapshot_every : {1, 2},
     queue_size : {2},
     force_overwrite : {FALSE},
     gamma : {1},
     reward_scale : {2}]

\* configurations of a restored agent
LoadConfigs ==
    [tau : {1},
     use_bn : BOOLEAN,
     memory_warmup : {0},
     train_every : {1},
     max_steps : {MaxStepsBound},
     clip_noise : {-1},
     batch_size : {1},
     memory_capacity : {3},
     save_snapshot_every : {1},
     queue_size : {2},
     force_overwrite : BOOLEAN,
     gamma : {1},
     reward_scale : {2}]

\* the files save_models and save_memory write
SnapshotFiles == {"memory.npz", "actor.h5", "critic.h5", "target.h5"}

\* sampler.pid of the sampler processes
Pids == 1..NumSamplers

\* env.action_space.low / high, one entry per action dimension
ActLow == <<0>>
ActHigh == <<2>>

\* ------------------------------------------------------------------ layers

\* Model.layers of create_actor, in graph order
ActorModelLayers(use_bn) ==
    <<"ob_input">>
    \o (IF use_bn THEN <<"actor_bn_ob">> ELSE <<>>)
    \o <<"actor_fc1", "actor_lrelu1", "action", "action_scaled">>
    \o (IF use_bn THEN <<"critic_bn_ob">> ELSE <<>>)
    \o <<"combined_input", "critic_fc1", "critic_lrelu1", "qval">>

\* Model.layers of create_critic, in graph order
CriticModelLayers(use_bn) ==
    <<"ob_input", "act_input">>
    \o (IF use_bn THEN <<"critic_bn_ob">> ELSE <<>>)
    \o <<"combined_input", "critic_fc1", "critic_lrelu1", "qval">>

\* "actor_" in l.name
HasActorPrefix(l) == l \in {"actor_bn_ob", "actor_fc1", "actor_lrelu1"}
\* "critic_" in l.name
HasCriticPrefix(l) == l \in {"critic_bn_ob", "critic_fc1", "critic_lrelu1"}
\* "bn_ob" in l
IsBnOb(l) == l \in {"actor_bn_ob", "critic_bn_ob"}

\* len(layer.get_weights()): Dense has kernel and bias, BatchNormalization
\* (center=False, scale=False) has moving mean and variance, the rest none
NumWeights(l) ==
    IF l \in {"actor_fc1", "action", "critic_fc1", "qval",
              "actor_bn_ob", "critic_bn_ob"} THEN 2 ELSE 0

ActorLayerNames(use_bn) ==
    <<"action">> \o SelectSeq(ActorModelLayers(use_bn), HasActorPrefix)

CriticLayerNames(use_bn) ==
    <<"qval">> \o SelectSeq(CriticModelLayers(use_bn), HasCriticPrefix)

SeqRange(s) == {s[i] : i \in 1..Len(s)}

\* -------------------------------------------------------------- weight copy

\* _copy_layer_weights: tar[i] = tau*src[i] + (1-tau)*tar[i]
CopyLayerWeights(src_w, tar_w, tau) ==
    [i \in 1..Len(src_w) |->
        (tau * src_w[i] + (TauDen - tau) * tar_w[i]) \div TauDen]

\* tau = 1.0 if "bn_ob" in l else tau
MutLayerTauNotForced(l, tau) == tau

LayerTau(l, tau) == IF IsBnOb(l) THEN TauDen ELSE tau

\* the loop of _copy_actor_weights / _copy_critic_weights over the layer
\* names; the local tau is reassigned in the loop and carried to the next
\* layer
RECURSIVE CopyLayers(_, _, _, _)
CopyLayers(names, src, tar, tau) ==
    IF names = <<>> THEN tar
    ELSE LET l == Head(names)
             t == LayerTau(l, tau)
         IN  CopyLayers(Tail(names), src,
                        [tar EXCEPT ![l] = CopyLayerWeights(src[l], tar[l], t)],
                        t)

CopyActorWeights(use_bn, src, tar, tau) ==
    CopyLayers(ActorLayerNames(use_bn), src, tar, tau)

CopyCriticWeights(use_bn, src, tar, tau) ==
    CopyLayers(CriticLayerNames(use_bn), src, tar, tau)

\* ---------------------------------------------------------------- networks

\* weights of a freshly created model: every layer of a model drawn from
\* that model's initializer
NewWeights(names, seed) ==
    [l \in SeqRange(names) |-> [i \in 1..NumWeights(l) |-> Scale * (seed + i)]]

\* one (actor, critic, target) initialisation each
WeightSeeds == {<<0, 1, 2>>, <<1, 1, 0>>}

\* outcomes of one fit: the step taken on every trained tensor
CriticFitSteps == {1, 2}
ActorFitSteps == {1}

\* layers create_actor builds with trainable=True (the embedded critic part
\* is built with trainable=False)
MutActorTrainsAll(use_bn) == SeqRange(ActorModelLayers(use_bn))

ActorTrainable(use_bn) ==
    {l \in SeqRange(ActorModelLayers(use_bn)) : HasActorPrefix(l) \/ l = "action"}

\* create_critic builds every layer with trainable=True
CriticTrainable(use_bn) == SeqRange(CriticModelLayers(use_bn))

\* Model.fit: every tensor of a trainable layer moves, the others stay
Fit(w, trainable, d) ==
    [l \in DOMAIN w |->
        IF l \in trainable THEN [i \in 1..Len(w[l]) |-> w[l][i] + d * Scale]
        ELSE w[l]]

\* ----------------------------------------------------------- replay buffer

\* a ReplayBuffer as constructed
EmptyMemory == [size |-> 0, data |-> <<>>]

\* ReplayBuffer.store: one more transition; at capacity the oldest entry
\* makes room for it
MutMemStoreOverNewest(m, capacity, tr) ==
    IF m.size >= capacity
    THEN [size |-> m.size,
          data |-> Append(SubSeq(m.data, 1, m.size - 1), tr)]
    ELSE [size |-> m.size + 1, data |-> Append(m.data, tr)]

MemStore(m, capacity, tr) ==
    LET kept == IF m.size >= capacity THEN Tail(m.data) ELSE m.data
    IN  [size |-> Len(kept) + 1, data |-> Append(kept, tr)]

\* the transition stored last
MemLast(m) == m.data[m.size]

\* the history of the transitions handed to store, cut to the capacity
\* most recent
Logged(log, capacity, tr) ==
    LastN(Append(log, tr), Min(Len(log) + 1, capacity))

\* ReplayBuffer.sample: the (None, ...) sentinel when the buffer is empty
MemSample(m) == IF m.size = 0 THEN "None" ELSE "batch"

\* ------------------------------------------------------------------- state

VARIABLES
    config,                 \* self.config
    force_learn,            \* single_learn's force_learn argument
    total_episodes,         \* the total_episodes argument of learn()
    phase,                  \* "created" (models built, before the hard copies), "ready"
    actor, critic, target,  \* layer name -> weight tensors
    target_update_counter,  \* self.target_update_counter (-1: not yet set)
    memory,                 \* self.memory: size and the transition stored last
    rand_process,           \* self.rand_process: samples since its last reset
    tac,                    \* position inside train_actor_critic
    tac_ret,                \* its return value (loss, h)
    batch,                  \* the batch of the train step under way (one element)
    critic_y,               \* the regression targets handed to critic.fit
    pc,                     \* position of single_learn
    episode_n, episode_steps, train_step_counter,
    steps_hist,             \* steps_hist, cut to its last entry
    noise, action, done,    \* locals of the loop body
    created,                \* history: the weights the three models were created with
    global_steps,           \* history: environment steps since single_learn began
    n_stored,               \* history: transitions stored
    stored,                 \* history: the last transitions handed to memory.store
    n_calls,                \* history: train_actor_critic calls
    n_trained,              \* history: calls that passed the warm-up gate
    n_copies,               \* history: hard copies made in periodic mode
    called_at,              \* history: global_steps at the last train call
    train_log,              \* history: the steps the last train call ran
    env_done_last,          \* history: whether the environment itself ended the last episode
    env,                    \* self.env: resets so far, steps since the last reset
    ob_processor,           \* self.ob_processor: observations processed since its reset
    sl_observation,         \* single_learn's local observation
    observation_t1,         \* single_learn's local observation_t1
    should_cont,            \* self.should_cont
    act_req_q, act_res_Qs, ob_sub_q,   \* the queues of multi_learn
    mem_lock, model_lock,   \* "free" or the thread holding the lock
    main_pc,                \* position of multi_learn's main thread
    requester_id, observation, qval,   \* locals of multi_learn (qval of NoOb: unbound)
    served, responded,      \* history: requests dequeued and responses put, per pid
    served_after,           \* history: requests dequeued with should_cont false
    col_pc,                 \* position of the episode_manager thread
    col_episode_n, col_episode_steps, col_msg,   \* its locals
    col_episode_qval,       \* its episode_qval, each list cut to its last entry
    w_pc, w_steps, w_episodes, w_msg,  \* the sampler processes
    model_dir,              \* self.model_dir: "None" or a directory
    files,                  \* the snapshot files found in model_dir
    load_pc,                \* position of set_state
    mem_loaded              \* its local mem_loaded

netVars == <<actor, critic, target, target_update_counter>>
obVars == <<env, ob_processor, sl_observation, observation_t1>>
slVars == <<pc, episode_n, episode_steps, train_step_counter, steps_hist,
            noise, action, done, obVars>>
histVars == <<created, global_steps, n_stored, n_calls, n_trained, n_copies,
              called_at, train_log, env_done_last>>
mlVars == <<should_cont, act_req_q, act_res_Qs, ob_sub_q, mem_lock, model_lock,
            main_pc, requester_id, observation, qval, served, responded,
            served_after,
            col_pc, col_episode_n, col_episode_steps, col_episode_qval,
            col_msg, w_pc, w_steps, w_episodes, w_msg>>
loadVars == <<model_dir, files, load_pc, mem_loaded>>
trainVars == <<batch, critic_y>>
vars == <<config, force_learn, total_episodes, phase, netVars, memory,
          rand_process, tac, tac_ret, slVars, histVars, mlVars, loadVars,
          trainVars, stored>>

UseBn == config.use_bn

\* an observation of a sampler is named by the sampler, its episode and the
\* steps taken in that episode before it; NoOb is no observation yet
NoOb == [pid |-> 0, episode |-> 0, step |-> 0]

\* env.reset(): a fresh episode of the environment; the raw observation it
\* returns is named by the reset and the steps taken since
EnvReset(e) == [reset |-> e.reset + 1, step |-> 0]

\* env.step(action): one more step of the running episode
EnvStep(e) == [reset |-> e.reset, step |-> e.step + 1]

\* ob_processor.reset()
ProcessorReset == [seen |-> 0]

\* util.process_ob(ob_processor, new_ob): the processed observation depends
\* on the raw one and on what the processor has seen since its reset
ProcessOb(proc, new_ob) == [raw |-> new_ob, seen |-> proc.seen]

\* the processor after process_ob
ProcessorNext(proc) == [seen |-> proc.seen + 1]

\* no processed observation yet
NoObservation == [raw |-> [reset |-> 0, step |-> 0], seen |-> -1]

\* ---------------------------------------------------------- construction

\* no train step is under way
NoBatch == [reward |-> 0, done |-> FALSE]

\* DDPG.__init__ up to the three create_* calls of build_nets
InitCommon(seeds) ==
    /\ phase = "created"
    /\ \E s \in seeds :
         /\ actor = NewWeights(ActorModelLayers(config.use_bn), s[1])
         /\ critic = NewWeights(CriticModelLayers(config.use_bn), s[2])
         /\ target = NewWeights(ActorModelLayers(config.use_bn), s[3])
    /\ created = [actor |-> actor, critic |-> critic, target |-> target]
    /\ target_update_counter = -1
    /\ memory = EmptyMemory
    /\ rand_process = [n |-> 0]
    /\ tac = "idle"
    /\ tac_ret = [loss |-> "unset", h |-> "unset"]
    /\ batch = NoBatch
    /\ critic_y = <<>>
    /\ episode_n = 0
    /\ episode_steps = 0
    /\ train_step_counter = 0
    /\ steps_hist = <<>>
    /\ noise = <<>>
    /\ action = <<>>
    /\ done = FALSE
    /\ global_steps = 0
    /\ n_stored = 0
    /\ stored = <<>>
    /\ n_calls = 0
    /\ n_trained = 0
    /\ n_copies = 0
    /\ called_at = 0
    /\ train_log = <<>>
    /\ env_done_last = FALSE
    /\ env = [reset |-> 0, step |-> 0]
    /\ ob_processor = ProcessorReset
    /\ sl_observation = NoObservation
    /\ observation_t1 = NoObservation
    /\ should_cont = FALSE
    /\ act_req_q = <<>>
    /\ act_res_Qs = [p \in Pids |-> <<>>]
    /\ ob_sub_q = <<>>
    /\ mem_lock = "free"
    /\ model_lock = "free"
    /\ requester_id = 0
    /\ observation = NoOb
    /\ qval = [of |-> NoOb]
    /\ served = [p \in Pids |-> 0]
    /\ responded = [p \in Pids |-> 0]
    /\ served_after = 0
    /\ col_episode_qval = [p \in Pids |-> <<>>]
    /\ col_pc = "off"
    /\ col_episode_n = 0
    /\ col_episode_steps = [p \in Pids |-> 0]
    /\ col_msg = [pid |-> 0, observation |-> NoOb, done |-> FALSE]
    /\ w_pc = [p \in Pids |-> "off"]
    /\ w_steps = [p \in Pids |-> 0]
    /\ w_episodes = [p \in Pids |-> 0]
    /\ w_msg = [p \in Pids |-> [pid |-> p, observation |-> NoOb, done |-> FALSE]]

\* set_state is not called: no snapshot directory is read
NoFiles ==
    [exists |-> [f \in SnapshotFiles |-> FALSE],
     memory |-> EmptyMemory, actor |-> <<>>, critic |-> <<>>, target |-> <<>>]

NoSetState ==
    /\ model_dir = "None"
    /\ files = NoFiles
    /\ load_pc = "off"
    /\ mem_loaded = FALSE

\* learn() with num_samplers = 0
Init ==
    /\ \/ config \in Configs /\ force_learn = FALSE
       \/ config \in ForceConfigs /\ force_learn = TRUE
    /\ NoSetState
    /\ InitCommon(WeightSeeds)
    /\ total_episodes = MaxEpisodes
    /\ pc = "start"
    /\ main_pc = "off"

\* learn() with num_samplers > 0
InitMulti ==
    /\ config \in MultiConfigs
    /\ NoSetState
    /\ InitCommon({<<0, 1, 2>>})
    /\ force_learn = FALSE
    /\ total_episodes \in 1..MaxEpisodes
    /\ pc = "off"
    /\ main_pc = "start"

\* build_nets after the create_* calls: the three hard copies and the counter
BuildNetsActor(use_bn, a, c) == CopyCriticWeights(use_bn, c, a, TauDen)

MutBuildNetsTargetNoActorCopy(use_bn, a, c, t) ==
    CopyCriticWeights(use_bn, c, t, TauDen)

BuildNetsTarget(use_bn, a, c, t) ==
    CopyActorWeights(use_bn, a, CopyCriticWeights(use_bn, c, t, TauDen), TauDen)

BuildNets ==
    /\ phase = "created"
    /\ phase' = "ready"
    /\ actor' = BuildNetsActor(UseBn, actor, critic)
    /\ target' = BuildNetsTarget(UseBn, actor', critic, target)
    /\ target_update_counter' = 0
    /\ UNCHANGED <<mlVars, loadVars, trainVars, stored, config, force_learn,
                   total_episodes, critic, memory, rand_process, tac, tac_ret,
                   slVars, histVars>>

\* ---------------------------------------------------------------- set_state

\* the contents of the snapshot files: weights of models of the same
\* architecture, written at some earlier moment, and a saved buffer
FileSeeds == {<<3, 4, 5>>, <<4, 4, 3>>}

SavedMemory ==
    MemStore(EmptyMemory, 3, [action |-> ActLow, done |-> TRUE, step |-> 1])

SnapshotDirs ==
    {[exists |-> e,
      memory |-> SavedMemory,
      actor |-> NewWeights(ActorModelLayers(config.use_bn), fs[1]),
      critic |-> NewWeights(CriticModelLayers(config.use_bn), fs[2]),
      target |-> NewWeights(ActorModelLayers(config.use_bn), fs[3])] :
        e \in [SnapshotFiles -> BOOLEAN], fs \in FileSeeds}

\* a constructed agent whose set_state is about to be called
InitLoad ==
    /\ config \in LoadConfigs
    /\ InitCommon({<<0, 1, 2>>})
    /\ force_learn = FALSE
    /\ total_episodes = MaxEpisodes
    /\ pc = "off"
    /\ main_pc = "off"
    /\ model_dir \in {"None", "dir"}
    /\ files \in SnapshotDirs
    /\ load_pc = "start"
    /\ mem_loaded = FALSE

notLoadVars == <<config, force_learn, total_episodes, phase, rand_process,
                 tac, tac_ret, slVars, histVars, mlVars, model_dir, files,
                 trainVars, stored>>

\* set_state is entered on a built agent
SetState ==
    /\ load_pc = "start" /\ phase = "ready"
    /\ load_pc' = "load_memory"
    /\ UNCHANGED <<notLoadVars, netVars, memory, mem_loaded>>

\* os.path.exists(path)
FileExists(f) == files.exists[f]

\* load_memory: os.path.join raises on a model_dir of None; the buffer file
\* is loaded when it exists
LoadMemory ==
    /\ load_pc = "load_memory"
    /\ IF model_dir = "None"
       THEN load_pc' = "error" /\ UNCHANGED <<memory, mem_loaded>>
       ELSE /\ load_pc' = "load_models"
            /\ IF FileExists("memory.npz")
               THEN memory' = files.memory /\ mem_loaded' = TRUE
               ELSE UNCHANGED memory /\ mem_loaded' = FALSE
    /\ UNCHANGED <<notLoadVars, netVars>>

\* load_models up to the first load_weights
LoadModels ==
    /\ load_pc = "load_models"
    /\ load_pc' = IF model_dir = "None" THEN "done" ELSE "load_actor"
    /\ UNCHANGED <<notLoadVars, netVars, memory, mem_loaded>>

\* Model.load_weights(path): every layer of the model takes the weights of
\* the file; a file that cannot be opened raises
LoadActor ==
    /\ load_pc = "load_actor"
    /\ IF files.exists["actor.h5"]
       THEN actor' = files.actor /\ load_pc' = "load_critic"
       ELSE UNCHANGED actor /\ load_pc' = "error"
    /\ UNCHANGED <<notLoadVars, critic, target, target_update_counter, memory,
                   mem_loaded>>

LoadCritic ==
    /\ load_pc = "load_critic"
    /\ IF files.exists["critic.h5"]
       THEN critic' = files.critic /\ load_pc' = "load_target"
       ELSE UNCHANGED critic /\ load_pc' = "error"
    /\ UNCHANGED <<notLoadVars, actor, target, target_update_counter, memory,
                   mem_loaded>>

\* overwrite_target = (not mem_loaded), or config["force_overwrite"]
MutOverwriteWantedNever(loaded, cfg) == FALSE

OverwriteWanted(loaded, cfg) == ~loaded \/ cfg.force_overwrite

LoadTarget ==
    /\ load_pc = "load_target"
    /\ IF files.exists["target.h5"]
       THEN /\ target' = files.target
            /\ load_pc' = IF OverwriteWanted(mem_loaded, config)
                          THEN "overwrite" ELSE "done"
       ELSE UNCHANGED target /\ load_pc' = "error"
    /\ UNCHANGED <<notLoadVars, actor, critic, target_update_counter, memory,
                   mem_loaded>>

\* the three hard copies of load_models
OverwriteTarget ==
    /\ load_pc = "overwrite"
    /\ actor' = CopyCriticWeights(UseBn, critic, actor, TauDen)
    /\ target' = CopyActorWeights(UseBn, actor',
                      CopyCriticWeights(UseBn, critic, target, TauDen), TauDen)
    /\ load_pc' = "done"
    /\ UNCHANGED <<notLoadVars, critic, target_update_counter, memory,
                   mem_loaded>>

NextLoad ==
    \/ BuildNets
    \/ SetState
    \/ LoadMemory
    \/ LoadModels
    \/ LoadActor
    \/ LoadCritic
    \/ LoadTarget
    \/ OverwriteTarget

SpecLoad == InitLoad /\ [][NextLoad]_vars

\* ------------------------------------------------------ train_actor_critic

\* the caller is at its call of train_actor_critic
TrainCalled == pc = "train" \/ main_pc = "train"

\* the force_learn argument of the call
ForceArg == pc = "train" /\ force_learn

\* a gate that tests memory_warmup whatever force_learn is
MutWarmupGateIgnoresForce(force, size, cfg) == size < cfg.memory_warmup

\* the warm-up gate: the call returns (0, None) at once
WarmupGate(force, size, cfg) ==
    \/ force /\ size < cfg.batch_size * 3
    \/ ~force /\ size < cfg.memory_warmup

TAC_Skip ==
    /\ TrainCalled /\ tac = "idle"
    /\ WarmupGate(ForceArg, memory.size, config)
    /\ tac' = "returned"
    /\ tac_ret' = [loss |-> "0", h |-> "None"]
    /\ n_calls' = n_calls + 1
    /\ called_at' = global_steps
    /\ train_log' = <<>>
    /\ UNCHANGED <<mlVars, loadVars, trainVars, stored, config, force_learn,
                   total_episodes, phase, netVars, memory, rand_process,
                   slVars, created, global_steps, n_stored, n_trained,
                   n_copies, env_done_last>>

\* the gate is passed and sample() returns the sentinel: ob1 is None in
\* _train_critic, target.predict_on_batch(None) raises
TAC_SampleEmpty ==
    /\ TrainCalled /\ tac = "idle"
    /\ ~WarmupGate(ForceArg, memory.size, config)
    /\ MemSample(memory) = "None"
    /\ tac' = "error"
    /\ n_calls' = n_calls + 1
    /\ called_at' = global_steps
    /\ train_log' = <<>>
    /\ UNCHANGED <<mlVars, loadVars, trainVars, stored, config, force_learn,
                   total_episodes, phase, netVars, memory, rand_process,
                   tac_ret, slVars, created, global_steps, n_stored,
                   n_trained, n_copies, env_done_last>>

\* rewards of a sampled transition, after reward shaping
Rewards == {0, 1}

\* target.predict_on_batch(ob1): the value the target network gives to its
\* own action, a function of its weights
FutureQ(t) == t["action"][1] + t["qval"][1]

\* done as a number
Num(b) == IF b THEN 1 ELSE 0

\* reward *= reward_scale, then reward += gamma * future_q * (1 - done),
\* in units of 1/TauDen
MutCriticTargetKeepsFuture(reward, future_q, is_done, cfg) ==
    reward * cfg.reward_scale * TauDen + cfg.gamma * future_q

CriticTarget(reward, future_q, is_done, cfg) ==
    reward * cfg.reward_scale * TauDen
        + cfg.gamma * future_q * (1 - Num(is_done))

\* _train_critic: fit the critic, then hard-copy it into the actor
TrainCritic(use_bn, a, c) == CopyCriticWeights(use_bn, c, a, TauDen)

TAC_Critic ==
    /\ TrainCalled /\ tac = "idle"
    /\ ~WarmupGate(ForceArg, memory.size, config)
    /\ MemSample(memory) # "None"
    /\ n_trained < MaxTrain
    /\ \E i \in 1..memory.size, r \in Rewards :
         /\ batch' = [reward |-> r, done |-> memory.data[i].done]
         /\ critic_y' = <<CriticTarget(r, FutureQ(target),
                                       memory.data[i].done, config)>>
    /\ \E d \in CriticFitSteps :
         critic' = Fit(critic, CriticTrainable(UseBn), d)
    /\ actor' = TrainCritic(UseBn, actor, critic')
    /\ tac' = "actor"
    /\ n_calls' = n_calls + 1
    /\ n_trained' = n_trained + 1
    /\ called_at' = global_steps
    /\ train_log' = <<"critic">>
    /\ UNCHANGED <<mlVars, loadVars, stored, config, force_learn,
                   total_episodes, phase, target, target_update_counter,
                   memory, rand_process, tac_ret, slVars, created,
                   global_steps, n_stored, n_copies, env_done_last>>

\* _train_actor: fit the actor's trainable layers
TAC_Actor ==
    /\ tac = "actor"
    /\ \E d \in ActorFitSteps :
         actor' = Fit(actor, ActorTrainable(UseBn), d)
    /\ tac' = "target"
    /\ train_log' = Append(train_log, "actor")
    /\ UNCHANGED <<mlVars, loadVars, trainVars, stored, config, force_learn,
                   total_episodes, phase, critic, target,
                   target_update_counter, memory, rand_process, tac_ret,
                   slVars, created, global_steps, n_stored, n_calls,
                   n_trained, n_copies, called_at, env_done_last>>

\* int(config["tau"])
TauPeriod(cfg) == cfg.tau \div TauDen

\* the soft update: both copies with tau = config["tau"]
SoftUpdate(use_bn, a, c, t, tau) ==
    CopyActorWeights(use_bn, a, CopyCriticWeights(use_bn, c, t, tau), tau)

\* the periodic branch: the counter after this train step
MutNextCounterNoWrap(counter, cfg) == counter + 1

NextCounter(counter, cfg) == (counter + 1) % TauPeriod(cfg)

\* "update target" of train_actor_critic, then its return
TAC_Target ==
    /\ tac = "target"
    /\ IF config.tau <= TauDen
       THEN /\ target' = SoftUpdate(UseBn, actor, critic, target, config.tau)
            /\ UNCHANGED <<target_update_counter, n_copies>>
       ELSE /\ target_update_counter' = NextCounter(target_update_counter, config)
            /\ IF target_update_counter' = 0
               THEN /\ target' = SoftUpdate(UseBn, actor, critic, target, TauDen)
                    /\ n_copies' = n_copies + 1
               ELSE UNCHANGED <<target, n_copies>>
    /\ tac' = "returned"
    /\ tac_ret' = [loss |-> "loss", h |-> "qval"]
    /\ batch' = NoBatch
    /\ critic_y' = <<>>
    /\ train_log' = Append(train_log, "target")
    /\ UNCHANGED <<mlVars, loadVars, stored, config, force_learn,
                   total_episodes, phase, actor, critic, memory, rand_process,
                   slVars, created, global_steps, n_stored, n_calls,
                   n_trained, called_at, env_done_last>>

\* ------------------------------------------------------------ single_learn

\* np.clip, element-wise
MutClipLowOnly(x, lo, hi) == [i \in 1..Len(x) |-> Max(x[i], lo[i])]

Clip(x, lo, hi) == [i \in 1..Len(x) |-> Min(Max(x[i], lo[i]), hi[i])]

VecAdd(x, y) == [i \in 1..Len(x) |-> x[i] + y[i]]
Fill(x, v) == [i \in 1..Len(x) |-> v]

\* np.all((action >= act_low) & (action <= act_high))
InBounds(a) == \A i \in 1..Len(a) : a[i] >= ActLow[i] /\ a[i] <= ActHigh[i]

\* actor.predict: the scaled tanh output, 0 or 1.0 per dimension
ActorOutputs == {<<0>>, <<2>>}
\* rand_process.sample()
NoiseSamples == {<<-3>>, <<0>>, <<3>>}

\* the noise after the optional clip to [-clip_noise, clip_noise]
ClipNoise(z, cfg) ==
    IF cfg.clip_noise >= 0
    THEN Clip(z, Fill(z, -cfg.clip_noise), Fill(z, cfg.clip_noise))
    ELSE z

\* lines 402-415: the locals, env.reset(), ob_processor.reset()
SL_Begin ==
    /\ pc = "start" /\ phase = "ready"
    /\ env' = EnvReset(env)
    /\ sl_observation' = ProcessOb(ProcessorReset, env')
    /\ ob_processor' = ProcessorNext(ProcessorReset)
    /\ pc' = "loop"
    /\ UNCHANGED <<mlVars, loadVars, trainVars, stored, config, force_learn,
                   total_episodes, phase, netVars, memory, rand_process, tac,
                   tac_ret, episode_n, episode_steps, train_step_counter,
                   steps_hist, noise, action, done, histVars, observation_t1>>

\* select the action, add noise, step the environment, bookkeeping
SL_Act ==
    /\ pc = "loop" /\ episode_n < total_episodes
    /\ \E p \in ActorOutputs, z \in NoiseSamples, d \in BOOLEAN :
         /\ noise' = ClipNoise(z, config)
         /\ action' = Clip(VecAdd(p, noise'), ActLow, ActHigh)
         /\ done' = d
    /\ rand_process' = [n |-> rand_process.n + 1]
    /\ env' = EnvStep(env)
    /\ observation_t1' = ProcessOb(ob_processor, env')
    /\ ob_processor' = ProcessorNext(ob_processor)
    /\ episode_steps' = episode_steps + 1
    /\ train_step_counter' = train_step_counter + 1
    /\ global_steps' = global_steps + 1
    /\ pc' = "store"
    /\ UNCHANGED <<mlVars, loadVars, trainVars, stored, config, force_learn,
                   total_episodes, phase, netVars, memory, tac, tac_ret,
                   episode_n, steps_hist, created, n_stored, n_calls,
                   n_trained, n_copies, called_at, train_log, env_done_last,
                   sl_observation>>

\* train_step_counter % train_every == 0
MutTrainDueEpisodeSteps(counter, steps, cfg) == steps % cfg.train_every = 0

TrainDue(counter, steps, cfg) == counter % cfg.train_every = 0

\* a store that records the time limit as done
MutStoredDoneForced(d, steps, cfg) == d \/ steps >= cfg.max_steps

\* the done argument of memory.store: the flag env.step returned
StoredDone(d, steps, cfg) == d

\* the bounds assertion, memory.store, and the cadence test
SL_Store ==
    /\ pc = "store"
    /\ IF InBounds(action)
       THEN /\ memory' = MemStore(memory, config.memory_capacity,
                                  [ob0 |-> sl_observation, action |-> action,
                                   ob1 |-> observation_t1,
                                   done |-> StoredDone(done, episode_steps,
                                                       config),
                                   step |-> episode_steps])
            /\ n_stored' = n_stored + 1
            /\ stored' = Logged(stored, config.memory_capacity,
                                [ob0 |-> sl_observation, action |-> action,
                                 ob1 |-> observation_t1,
                                 done |-> StoredDone(done, episode_steps,
                                                     config),
                                 step |-> episode_steps])
            /\ pc' = IF TrainDue(train_step_counter, episode_steps, config)
                     THEN "train" ELSE "episode_end"
       ELSE /\ pc' = "assert_failed"
            /\ UNCHANGED <<memory, n_stored, stored>>
    /\ UNCHANGED <<mlVars, loadVars, trainVars, config, force_learn,
                   total_episodes, phase, netVars, rand_process, tac, tac_ret,
                   episode_n, episode_steps, train_step_counter, steps_hist,
                   noise, action, done, created, global_steps, n_calls,
                   n_trained, n_copies, called_at, train_log, env_done_last,
                   obVars>>

\* lines 449-451, after train_actor_critic returned
SL_AfterTrain ==
    /\ pc = "train" /\ tac = "returned"
    /\ tac' = "idle"
    /\ train_step_counter' = 0
    /\ pc' = IF tac_ret.h # "None" /\ force_learn THEN "returned"
             ELSE "episode_end"
    /\ UNCHANGED <<mlVars, loadVars, trainVars, stored, config, force_learn,
                   total_episodes, phase, netVars, memory, rand_process,
                   tac_ret, episode_n, episode_steps, steps_hist, noise,
                   action, done, histVars, obVars>>

\* done |= (episode_steps >= max_steps)
MutEpisodeOverLate(d, steps, cfg) == d \/ steps > cfg.max_steps

EpisodeOver(d, steps, cfg) == d \/ steps >= cfg.max_steps

\* "on episode end": count the episode, save, reset the episode's values,
\* the environment and the observation processor
SL_EpisodeEnd ==
    /\ pc = "episode_end"
    /\ EpisodeOver(done, episode_steps, config)
    /\ done' = TRUE
    /\ episode_n' = episode_n + 1
    /\ steps_hist' = <<episode_steps>>
    /\ env_done_last' = done
    /\ episode_steps' = 0
    /\ env' = EnvReset(env)
    /\ sl_observation' = ProcessOb(ProcessorReset, env')
    /\ ob_processor' = ProcessorNext(ProcessorReset)
    /\ pc' = "loop"
    /\ UNCHANGED <<mlVars, loadVars, trainVars, stored, config, force_learn,
                   total_episodes, phase, netVars, memory, rand_process, tac,
                   tac_ret, train_step_counter, noise, action, created,
                   global_steps, n_stored, n_calls, n_trained, n_copies,
                   called_at, train_log, observation_t1>>

\* a loop that keeps the observation it acted on
MutNextObservationStale(ob, ob_t1) == ob

\* observation = observation_t1
NextObservation(ob, ob_t1) == ob_t1

\* the else branch of "on episode end"
SL_Continue ==
    /\ pc = "episode_end"
    /\ ~EpisodeOver(done, episode_steps, config)
    /\ sl_observation' = NextObservation(sl_observation, observation_t1)
    /\ pc' = "loop"
    /\ UNCHANGED <<mlVars, loadVars, trainVars, stored, config, force_learn,
                   total_episodes, phase, netVars, memory, rand_process, tac,
                   tac_ret, episode_n, episode_steps, train_step_counter,
                   steps_hist, noise, action, done, histVars, env,
                   ob_processor, observation_t1>>

\* the loop ends: save_models, save_memory, return the histories
SL_Finish ==
    /\ pc = "loop" /\ episode_n >= total_episodes
    /\ pc' = "done"
    /\ UNCHANGED <<mlVars, loadVars, trainVars, stored, config, force_learn,
                   total_episodes, phase, netVars, memory, rand_process, tac,
                   tac_ret, episode_n, episode_steps, train_step_counter,
                   steps_hist, noise, action, done, histVars, obVars>>

Next ==
    \/ BuildNets
    \/ SL_Begin
    \/ SL_Act
    \/ SL_Store
    \/ TAC_Skip
    \/ TAC_Critic
    \/ TAC_Actor
    \/ TAC_Target
    \/ SL_AfterTrain
    \/ SL_EpisodeEnd
    \/ SL_Continue
    \/ SL_Finish

Spec == Init /\ [][Next]_vars

\* ------------------------------------------------------------- multi_learn

agentVars == <<config, force_learn, total_episodes, phase, netVars, rand_process, tac_ret,
               slVars, histVars>>
mainVars == <<main_pc, requester_id, observation, qval, served, responded,
              served_after>>
colVars == <<col_pc, col_episode_n, col_episode_steps, col_episode_qval,
            col_msg>>
wVars == <<w_pc, w_steps, w_episodes, w_msg>>

\* Lock.acquire() returns only when no thread holds the lock
MutCanAcquireHeld(lock) == TRUE

CanAcquire(lock) == lock = "free"

\* a release that leaves the lock with its holder
MutReleaseKeeps(lock) == lock

\* Lock.release() frees the lock its holder took
Release(lock) == "free"

\* lines 502-592: the flag, the queues and locks, the sampler processes and
\* the episode_manager thread
M_Begin ==
    /\ main_pc = "start" /\ phase = "ready"
    /\ should_cont' = TRUE
    /\ main_pc' = "check"
    /\ col_pc' = "loop"
    /\ w_pc' = [p \in Pids |-> "request"]
    /\ UNCHANGED <<agentVars, loadVars, trainVars, stored, memory, tac,
                   act_req_q, act_res_Qs, ob_sub_q, mem_lock, model_lock,
                   requester_id, observation, qval, served, responded,
                   col_episode_n, col_episode_steps, col_episode_qval,
                   col_msg, w_steps, w_episodes, w_msg, served_after>>

\* the observation a sampler is looking at
WorkerOb(p) == [pid |-> p, episode |-> w_episodes[p], step |-> w_steps[p]]

\* a sampler asks for an action for its observation
W_Request(p) ==
    /\ w_pc[p] = "request"
    /\ Len(act_req_q) < config.queue_size
    /\ act_req_q' = Append(act_req_q, [pid |-> p, observation |-> WorkerOb(p)])
    /\ w_pc' = [w_pc EXCEPT ![p] = "wait"]
    /\ UNCHANGED <<agentVars, loadVars, trainVars, stored, memory, tac,
                   should_cont, act_res_Qs, ob_sub_q, mem_lock, model_lock,
                   mainVars, colVars, w_steps, w_episodes, w_msg>>

\* the sampler takes the response from its own queue and steps its
\* environment; the episode ends when the environment says so or at max_steps
W_Act(p) ==
    /\ w_pc[p] = "wait"
    /\ act_res_Qs[p] # <<>>
    /\ act_res_Qs' = [act_res_Qs EXCEPT ![p] = Tail(@)]
    /\ \E d \in BOOLEAN :
         w_msg' = [w_msg EXCEPT ![p] =
                     [pid |-> p, observation |-> WorkerOb(p),
                      done |-> d \/ w_steps[p] + 1 >= config.max_steps]]
    /\ w_steps' = [w_steps EXCEPT ![p] = @ + 1]
    /\ w_pc' = [w_pc EXCEPT ![p] = "submit"]
    /\ UNCHANGED <<agentVars, loadVars, trainVars, stored, memory, tac,
                   should_cont, act_req_q, ob_sub_q, mem_lock, model_lock,
                   mainVars, colVars, w_episodes>>

\* the sampler publishes the transition; it leaves after its episodes
W_Submit(p) ==
    /\ w_pc[p] = "submit"
    /\ Len(ob_sub_q) < config.queue_size
    /\ ob_sub_q' = Append(ob_sub_q, w_msg[p])
    /\ LET n == w_episodes[p] + (IF w_msg[p].done THEN 1 ELSE 0)
       IN  /\ w_episodes' = [w_episodes EXCEPT ![p] = n]
           /\ w_pc' = [w_pc EXCEPT ![p] =
                          IF n >= WorkerEpisodes THEN "exit" ELSE "request"]
    /\ w_steps' = [w_steps EXCEPT ![p] = IF w_msg[p].done THEN 0 ELSE @]
    /\ UNCHANGED <<agentVars, loadVars, trainVars, stored, memory, tac,
                   should_cont, act_req_q, act_res_Qs, mem_lock, model_lock,
                   mainVars, colVars, w_msg>>

\* while episode_n < total_episodes ... self.should_cont = False
C_Loop ==
    /\ col_pc = "loop"
    /\ IF col_episode_n < total_episodes
       THEN col_pc' = "get" /\ UNCHANGED should_cont
       ELSE col_pc' = "exit" /\ should_cont' = FALSE
    /\ UNCHANGED <<agentVars, loadVars, trainVars, stored, memory, tac,
                   act_req_q, act_res_Qs, ob_sub_q, mem_lock, model_lock,
                   mainVars, col_episode_n, col_episode_steps,
                   col_episode_qval, col_msg, wVars>>

\* msg = ob_sub_q.get() and the record-keeping before the store
C_Get ==
    /\ col_pc = "get"
    /\ ob_sub_q # <<>>
    /\ col_msg' = Head(ob_sub_q)
    /\ ob_sub_q' = Tail(ob_sub_q)
    /\ col_episode_steps' =
          [col_episode_steps EXCEPT ![Head(ob_sub_q).pid] = @ + 1]
    /\ col_episode_qval' =
          [col_episode_qval EXCEPT ![Head(ob_sub_q).pid] = <<qval>>]
    /\ col_pc' = "lock_mem"
    /\ UNCHANGED <<agentVars, loadVars, trainVars, stored, memory, tac,
                   should_cont, act_req_q, act_res_Qs, mem_lock, model_lock,
                   mainVars, col_episode_n, wVars>>

\* mem_lock.acquire()
C_LockMem ==
    /\ col_pc = "lock_mem"
    /\ CanAcquire(mem_lock)
    /\ mem_lock' = "col"
    /\ col_pc' = "store"
    /\ UNCHANGED <<agentVars, loadVars, trainVars, stored, memory, tac,
                   should_cont, act_req_q, act_res_Qs, ob_sub_q, model_lock,
                   mainVars, col_episode_n, col_episode_steps,
                   col_episode_qval, col_msg, wVars>>

\* memory.store, mem_lock.release(), and "if done: episode_n += 1"
C_Store ==
    /\ col_pc = "store"
    /\ memory' = MemStore(memory, config.memory_capacity,
                          [action |-> ActLow, done |-> col_msg.done,
                           step |-> col_episode_steps[col_msg.pid]])
    /\ stored' = Logged(stored, config.memory_capacity,
                        [action |-> ActLow, done |-> col_msg.done,
                         step |-> col_episode_steps[col_msg.pid]])
    /\ mem_lock' = Release(mem_lock)
    /\ IF col_msg.done
       THEN col_episode_n' = col_episode_n + 1 /\ col_pc' = "lock_model"
       ELSE col_pc' = "loop" /\ UNCHANGED col_episode_n
    /\ UNCHANGED <<agentVars, loadVars, trainVars, tac, should_cont,
                   act_req_q, act_res_Qs, ob_sub_q, model_lock, mainVars,
                   col_episode_steps, col_episode_qval, col_msg, wVars>>

\* model_lock.acquire()
C_LockModel ==
    /\ col_pc = "lock_model"
    /\ CanAcquire(model_lock)
    /\ model_lock' = "col"
    /\ col_pc' = "save_models"
    /\ UNCHANGED <<agentVars, loadVars, trainVars, stored, memory, tac,
                   should_cont, act_req_q, act_res_Qs, ob_sub_q, mem_lock,
                   mainVars, col_episode_n, col_episode_steps,
                   col_episode_qval, col_msg, wVars>>

\* save_models(), model_lock.release(), and the snapshot test
C_SaveModels ==
    /\ col_pc = "save_models"
    /\ model_lock' = Release(model_lock)
    /\ col_pc' = IF col_episode_n % config.save_snapshot_every = 0
                 THEN "lock_mem2" ELSE "reset"
    /\ UNCHANGED <<agentVars, loadVars, trainVars, stored, memory, tac,
                   should_cont, act_req_q, act_res_Qs, ob_sub_q, mem_lock,
                   mainVars, col_episode_n, col_episode_steps,
                   col_episode_qval, col_msg, wVars>>

\* mem_lock.acquire() ahead of save_memory()
C_LockMem2 ==
    /\ col_pc = "lock_mem2"
    /\ CanAcquire(mem_lock)
    /\ mem_lock' = "col"
    /\ col_pc' = "save_memory"
    /\ UNCHANGED <<agentVars, loadVars, trainVars, stored, memory, tac,
                   should_cont, act_req_q, act_res_Qs, ob_sub_q, model_lock,
                   mainVars, col_episode_n, col_episode_steps,
                   col_episode_qval, col_msg, wVars>>

\* save_memory(), mem_lock.release()
C_SaveMemory ==
    /\ col_pc = "save_memory"
    /\ mem_lock' = Release(mem_lock)
    /\ col_pc' = "reset"
    /\ UNCHANGED <<agentVars, loadVars, trainVars, stored, memory, tac,
                   should_cont, act_req_q, act_res_Qs, ob_sub_q, model_lock,
                   mainVars, col_episode_n, col_episode_steps,
                   col_episode_qval, col_msg, wVars>>

\* episode_steps[pid] = 0
MutResetStepsAll(steps, pid) == [p \in Pids |-> 0]

ResetSteps(steps, pid) == [steps EXCEPT ![pid] = 0]

\* "reset values" of the worker whose episode ended
C_Reset ==
    /\ col_pc = "reset"
    /\ col_episode_steps' = ResetSteps(col_episode_steps, col_msg.pid)
    /\ col_episode_qval' = [col_episode_qval EXCEPT ![col_msg.pid] = <<>>]
    /\ col_pc' = "loop"
    /\ UNCHANGED <<agentVars, loadVars, trainVars, stored, memory, tac,
                   should_cont, act_req_q, act_res_Qs, ob_sub_q, mem_lock,
                   model_lock, mainVars, col_episode_n, col_msg, wVars>>

\* a loop that never tests the flag
MutLoopContinuesAlways(flag) == TRUE

\* while self.should_cont
LoopContinues(flag) == flag

M_Check ==
    /\ main_pc = "check"
    /\ main_pc' = IF LoopContinues(should_cont) THEN "get" ELSE "join"
    /\ UNCHANGED <<agentVars, loadVars, trainVars, stored, memory, tac,
                   should_cont, act_req_q, act_res_Qs, ob_sub_q, mem_lock,
                   model_lock, requester_id, observation, qval, served,
                   responded, colVars, wVars, served_after>>

\* req_msg = act_req_q.get()
M_Get ==
    /\ main_pc = "get"
    /\ act_req_q # <<>>
    /\ requester_id' = Head(act_req_q).pid
    /\ observation' = Head(act_req_q).observation
    /\ served' = [served EXCEPT ![Head(act_req_q).pid] = @ + 1]
    /\ served_after' = served_after + Num(~should_cont)
    /\ act_req_q' = Tail(act_req_q)
    /\ main_pc' = "lock_predict"
    /\ UNCHANGED <<agentVars, loadVars, trainVars, stored, memory, tac,
                   should_cont, act_res_Qs, ob_sub_q, mem_lock, model_lock,
                   qval, responded, colVars, wVars>>

\* model_lock.acquire() ahead of actor.predict
M_LockPredict ==
    /\ main_pc = "lock_predict"
    /\ CanAcquire(model_lock)
    /\ model_lock' = "main"
    /\ main_pc' = "predict"
    /\ UNCHANGED <<agentVars, loadVars, trainVars, stored, memory, tac,
                   should_cont, act_req_q, act_res_Qs, ob_sub_q, mem_lock,
                   requester_id, observation, qval, served, responded,
                   colVars, wVars, served_after>>

\* actor.predict: the value estimate of an observation, named by it
Predict(ob) == [of |-> ob]

\* action, qval = self.actor.predict(observation); model_lock.release()
M_Predict ==
    /\ main_pc = "predict"
    /\ qval' = Predict(observation)
    /\ model_lock' = Release(model_lock)
    /\ main_pc' = "respond"
    /\ UNCHANGED <<agentVars, loadVars, trainVars, stored, memory, tac,
                   should_cont, act_req_q, act_res_Qs, ob_sub_q, mem_lock,
                   requester_id, observation, served, responded, colVars,
                   wVars, served_after>>

\* act_res_q = act_res_Qs[requester_id]: the queue registered for that pid
MutResponseQueueFirst(pid) == 1

ResponseQueue(pid) == pid

\* act_res_Qs[requester_id].put((action, qval))
M_Respond ==
    /\ main_pc = "respond"
    /\ Len(act_res_Qs[ResponseQueue(requester_id)]) < config.queue_size
    /\ act_res_Qs' = [act_res_Qs EXCEPT ![ResponseQueue(requester_id)] =
                          Append(@, [qval |-> qval])]
    /\ responded' = [responded EXCEPT ![ResponseQueue(requester_id)] = @ + 1]
    /\ main_pc' = "lock_mem"
    /\ UNCHANGED <<agentVars, loadVars, trainVars, stored, memory, tac,
                   should_cont, act_req_q, ob_sub_q, mem_lock, model_lock,
                   requester_id, observation, qval, served, colVars, wVars,
                   served_after>>

\* mem_lock.acquire()
M_LockMem ==
    /\ main_pc = "lock_mem"
    /\ CanAcquire(mem_lock)
    /\ mem_lock' = "main"
    /\ main_pc' = "lock_model"
    /\ UNCHANGED <<agentVars, loadVars, trainVars, stored, memory, tac,
                   should_cont, act_req_q, act_res_Qs, ob_sub_q, model_lock,
                   requester_id, observation, qval, served, responded,
                   colVars, wVars, served_after>>

\* model_lock.acquire(); train_actor_critic() is called next
M_LockModel ==
    /\ main_pc = "lock_model"
    /\ CanAcquire(model_lock)
    /\ model_lock' = "main"
    /\ main_pc' = "train"
    /\ UNCHANGED <<agentVars, loadVars, trainVars, stored, memory, tac,
                   should_cont, act_req_q, act_res_Qs, ob_sub_q, mem_lock,
                   requester_id, observation, qval, served, responded,
                   colVars, wVars, served_after>>

\* losses.append(loss); both locks released
M_AfterTrain ==
    /\ main_pc = "train" /\ tac = "returned"
    /\ tac' = "idle"
    /\ model_lock' = Release(model_lock)
    /\ mem_lock' = Release(mem_lock)
    /\ main_pc' = "check"
    /\ UNCHANGED <<agentVars, loadVars, trainVars, stored, memory,
                   should_cont, act_req_q, act_res_Qs, ob_sub_q, requester_id,
                   observation, qval, served, responded, colVars, wVars,
                   served_after>>

\* the exception of train_actor_critic leaves multi_learn: the main thread
\* ends with both locks held
M_TrainRaised ==
    /\ main_pc = "train" /\ tac = "error"
    /\ main_pc' = "raised"
    /\ UNCHANGED <<agentVars, loadVars, trainVars, stored, memory, tac,
                   should_cont, act_req_q, act_res_Qs, ob_sub_q, mem_lock,
                   model_lock, requester_id, observation, qval, served,
                   responded, colVars, wVars, served_after>>

\* Process.join() returns once the process has ended
MutSamplersExitedAny == \E p \in Pids : w_pc[p] = "exit"

SamplersExited == \A p \in Pids : w_pc[p] = "exit"

\* t.join()
M_Join ==
    /\ main_pc = "join"
    /\ col_pc = "exit"
    /\ main_pc' = "join_samplers"
    /\ UNCHANGED <<agentVars, loadVars, trainVars, stored, memory, tac,
                   should_cont, act_req_q, act_res_Qs, ob_sub_q, mem_lock,
                   model_lock, requester_id, observation, qval, served,
                   responded, colVars, wVars, served_after>>

\* for s in samplers: s.join()
M_JoinSamplers ==
    /\ main_pc = "join_samplers"
    /\ SamplersExited
    /\ main_pc' = "final_save"
    /\ UNCHANGED <<agentVars, loadVars, trainVars, stored, memory, tac,
                   should_cont, act_req_q, act_res_Qs, ob_sub_q, mem_lock,
                   model_lock, requester_id, observation, qval, served,
                   responded, colVars, wVars, served_after>>

\* the final save_models() and save_memory(); multi_learn returns
M_FinalSave ==
    /\ main_pc = "final_save"
    /\ main_pc' = "done"
    /\ UNCHANGED <<agentVars, loadVars, trainVars, stored, memory, tac,
                   should_cont, act_req_q, act_res_Qs, ob_sub_q, mem_lock,
                   model_lock, requester_id, observation, qval, served,
                   responded, colVars, wVars, served_after>>

NextMulti ==
    \/ BuildNets
    \/ M_Begin
    \/ \E p \in Pids : W_Request(p)
    \/ \E p \in Pids : W_Act(p)
    \/ \E p \in Pids : W_Submit(p)
    \/ C_Loop
    \/ C_Get
    \/ C_LockMem
    \/ C_Store
    \/ C_LockModel
    \/ C_SaveModels
    \/ C_LockMem2
    \/ C_SaveMemory
    \/ C_Reset
    \/ M_Check
    \/ M_Get
    \/ M_LockPredict
    \/ M_Predict
    \/ M_Respond
    \/ M_LockMem
    \/ M_LockModel
    \/ TAC_Skip
    \/ TAC_SampleEmpty
    \/ TAC_Critic
    \/ TAC_Actor
    \/ TAC_Target
    \/ M_AfterTrain
    \/ M_TrainRaised
    \/ M_Join
    \/ M_JoinSamplers
    \/ M_FinalSave

SpecMulti == InitMulti /\ [][NextMulti]_vars

\* the steps of the main thread, of the collector thread and of one sampler
MainNext ==
    \/ BuildNets \/ M_Begin \/ M_Check \/ M_Get \/ M_LockPredict \/ M_Predict
    \/ M_Respond \/ M_LockMem \/ M_LockModel \/ TAC_Skip \/ TAC_SampleEmpty
    \/ TAC_Critic \/ TAC_Actor \/ TAC_Target \/ M_AfterTrain \/ M_TrainRaised
    \/ M_Join \/ M_JoinSamplers \/ M_FinalSave

ColNext ==
    \/ C_Loop \/ C_Get \/ C_LockMem \/ C_Store \/ C_LockModel
    \/ C_SaveModels \/ C_LockMem2 \/ C_SaveMemory \/ C_Reset

WNext(p) == W_Request(p) \/ W_Act(p) \/ W_Submit(p)

\* every thread and process that can take a step is eventually scheduled
SpecMultiFair ==
    /\ InitMulti /\ [][NextMulti]_vars
    /\ WF_vars(MainNext) /\ WF_vars(ColNext)
    /\ \A p \in Pids : WF_vars(WNext(p))

\* ------------------------------------------------------------------ claims

ActorNames == SeqRange(ActorLayerNames(UseBn))
CriticNames == SeqRange(CriticLayerNames(UseBn))

\* a train step that passed the gate has just returned
TrainedReturn == tac = "returned" /\ tac_ret.h # "None"

\* the step "update target" of a train step is being taken
TargetStep == tac = "target" /\ tac' = "returned"

\* dst_new = t*src + (1-t)*dst_old for every tensor of layer l
Interpolated(l, src, old, new, t) ==
    \A i \in 1..Len(old[l]) :
        TauDen * new[l][i] = t * src[l][i] + (TauDen - t) * old[l][i]

\* C1: with tau = t <= 1.0, the target update of one train step leaves every
\* tensor of every copied target layer other than the 'bn_ob' layer equal to
\* t*src + (1-t)*dst_old, wherever the layer stands in the copy list.
C1_SoftUpdateInterpolates ==
    [][(TargetStep /\ config.tau <= TauDen) =>
          /\ \A l \in ActorNames :
                ~IsBnOb(l) => Interpolated(l, actor, target, target', config.tau)
          /\ \A l \in CriticNames :
                ~IsBnOb(l) => Interpolated(l, critic, target, target', config.tau)
      ]_vars

\* the last network operation was a copy of actor and critic into target
TargetJustCopied ==
    \/ phase = "ready" /\ n_trained = 0
    \/ TrainedReturn /\ (config.tau <= TauDen \/ target_update_counter = 0)

\* C2: after a weight copy ran, with any tau, the destination's observation
\* batch-normalization layer equals the source's exactly.
C2_BnObHardCopied ==
    (UseBn /\ phase = "ready") =>
        /\ actor["critic_bn_ob"] = critic["critic_bn_ob"]
        /\ TargetJustCopied =>
              /\ target["actor_bn_ob"] = actor["actor_bn_ob"]
              /\ target["critic_bn_ob"] = critic["critic_bn_ob"]

\* C2 witness: a soft update with tau = 0 ran on differing networks: the
\* layer ahead of 'bn_ob' kept its old value, 'bn_ob' took the source's.
C2_Witness ==
    /\ UseBn /\ TrainedReturn /\ config.tau = 0
    /\ target["qval"] # critic["qval"]
    /\ target["critic_bn_ob"] = critic["critic_bn_ob"]
    /\ critic["critic_bn_ob"] # created.critic["critic_bn_ob"]

\* C3 as stated: with tau a period P > 1, one hard copy per P calls of
\* train_actor_critic.
C3_OneCopyEveryPCalls ==
    (config.tau > TauDen /\ tac \in {"idle", "returned"}) =>
        n_copies = n_calls \div TauPeriod(config)

\* C3 amended: with tau a period P > 1, the train steps that pass the warm-up
\* gate are the ones counted: the k-th of them hard-copies actor and critic
\* into target exactly when k is a multiple of P, and every other step of the
\* program (skipped calls included) leaves target unchanged.
C3_PeriodicHardCopy ==
    [][(config.tau > TauDen /\ phase = "ready") =>
          /\ (TargetStep /\ n_trained % TauPeriod(config) = 0) =>
                /\ \A l \in ActorNames : target'[l] = actor[l]
                /\ \A l \in CriticNames : target'[l] = critic[l]
                /\ n_copies' = n_copies + 1
          /\ ~(TargetStep /\ n_trained % TauPeriod(config) = 0) =>
                /\ target' = target
                /\ n_copies' = n_copies
      ]_vars

\* C3 witness: the P-th counted train step made its hard copy, after calls
\* the warm-up gate skipped.
C3_Witness ==
    /\ config.tau > TauDen /\ TrainedReturn
    /\ n_copies = 1 /\ n_trained = TauPeriod(config) /\ n_calls > n_trained
    /\ target["action"] = actor["action"]
    /\ actor["action"] # created.actor["action"]

\* C4: right after build_nets the target's actor layers equal the actor's,
\* and the critic part of the actor and of the target equal the critic.
C4_HardCopyAtInit ==
    (phase = "ready" /\ n_trained = 0) =>
        /\ \A l \in ActorNames : target[l] = actor[l]
        /\ \A l \in CriticNames : actor[l] = critic[l] /\ target[l] = critic[l]

\* C4 witness: build_nets ran on three models created with differing weights.
C4_Witness ==
    /\ phase = "ready" /\ n_trained = 0
    /\ created.target["action"] # created.actor["action"]
    /\ created.actor["qval"] # created.critic["qval"]
    /\ created.target["qval"] # created.critic["qval"]

\* C5: from construction on, and after every train step, the critic part
\* embedded in the actor has the critic's weights; the actor's training step
\* does not change it.
C5_EmbeddedCriticInSync ==
    phase = "ready" => \A l \in CriticNames : actor[l] = critic[l]

\* C5 witness: a train step returned after the critic and the actor were fit.
C5_Witness ==
    /\ TrainedReturn
    /\ critic["qval"] # created.critic["qval"]
    /\ actor["action"] # created.actor["action"]

\* C6: a call of train_actor_critic on an empty replay buffer is skipped,
\* whatever memory_warmup is: it returns (0, None), changes no weight and
\* raises nothing, and the calling loop goes on.
C6_EmptyBufferSkipped ==
    [][(TrainCalled /\ tac = "idle" /\ memory.size = 0 /\ tac' # "idle") =>
          /\ tac' = "returned"
          /\ tac_ret'.h = "None"
          /\ UNCHANGED netVars
      ]_vars

\* C7: no episode exceeds max_steps steps, and an episode the environment
\* never ends is ended at exactly its max_steps-th step.
C7_ForcedDone ==
    /\ episode_steps <= config.max_steps
    /\ pc = "loop" => episode_steps < config.max_steps
    /\ steps_hist # <<>> =>
          /\ steps_hist[1] <= config.max_steps
          /\ ~env_done_last => steps_hist[1] = config.max_steps

\* C7 witness: an episode of max_steps > 1 steps ended without the
\* environment reporting done.
C7_Witness ==
    /\ episode_n >= 1 /\ ~env_done_last
    /\ config.max_steps > 1 /\ steps_hist = <<config.max_steps>>

\* C8: the bounds assertion before memory.store never fails: every stored
\* action lies within [act_low, act_high].
C8_StoredActionInBounds ==
    /\ pc # "assert_failed"
    /\ n_stored > 0 => InBounds(MemLast(memory).action)

\* C8 witness: unclipped noise pushed the action over act_high and the
\* stored action is act_high.
C8_Witness ==
    /\ n_stored > 0 /\ config.clip_noise < 0
    /\ noise = <<3>> /\ MemLast(memory).action = ActHigh

\* C9: train_actor_critic is called exactly on the steps whose count since
\* the start of single_learn is a multiple of train_every, after the step's
\* transition was stored; a train step that is not skipped runs the critic
\* step, the actor step and the target update in that order.
C9_TrainCadence ==
    /\ pc = "train" =>
          /\ global_steps % config.train_every = 0
          /\ n_stored = global_steps
    /\ (pc = "train" /\ tac # "idle") => called_at = global_steps
    /\ pc = "episode_end" =>
          (called_at = global_steps <=> global_steps % config.train_every = 0)
    /\ (pc = "train" /\ TrainedReturn) =>
          train_log = <<"critic", "actor", "target">>

\* C9 witness: with train_every = 2 a train step ran on the first step of a
\* later episode.
C9_Witness ==
    /\ pc = "train" /\ TrainedReturn
    /\ config.train_every = 2 /\ episode_n >= 1 /\ episode_steps = 1

\* C10: the noise process is sampled once per environment step and reset on
\* every episode termination: each episode starts with a fresh process.
C10_NoiseResetEachEpisode ==
    /\ rand_process.n <= global_steps
    /\ (pc = "loop" /\ episode_steps = 0) => rand_process.n = 0

\* the collector is inside memory.store or save_memory
ColUsesBuffer == col_pc \in {"store", "save_memory"}
\* the collector is inside save_models
ColUsesNets == col_pc = "save_models"
\* the main thread is inside train_actor_critic (buffer and networks)
MainTrains == main_pc = "train"
\* the main thread is inside actor.predict or train_actor_critic
MainUsesNets == main_pc \in {"predict", "train"}

\* C11: in multi_learn a buffer store or snapshot of the collector never
\* overlaps the train step of the main thread, a network access of one thread
\* never overlaps a network access of the other, and each such access is made
\* holding mem_lock (buffer) or model_lock (networks).
C11_MutualExclusion ==
    /\ ~(ColUsesBuffer /\ MainTrains)
    /\ ~(ColUsesNets /\ MainUsesNets)
    /\ ColUsesBuffer => mem_lock = "col"
    /\ ColUsesNets => model_lock = "col"
    /\ MainTrains => mem_lock = "main" /\ model_lock = "main"
    /\ main_pc = "predict" => model_lock = "main"

\* the collector waits for mem_lock while the main thread trains
C11_Witness ==
    /\ col_pc = "lock_mem" /\ MainTrains /\ tac \notin {"idle", "error"}
    /\ mem_lock = "main"

\* C12: once the collector has counted total_episodes episodes and cleared
\* should_cont, the main loop ends and multi_learn returns.
C12_ShutdownLiveness ==
    (col_pc = "exit" /\ ~should_cont /\ config.memory_warmup > 0)
        ~> (main_pc = "done")

\* C13: the final save_models and save_memory of multi_learn run only after
\* the collector thread has ended and every sampler process has ended, so no
\* store, train step or snapshot of another thread runs during or after them.
C13_FinalSaveAfterJoins ==
    main_pc \in {"final_save", "done"} =>
        /\ col_pc = "exit"
        /\ \A p \in Pids : w_pc[p] = "exit"
        /\ tac = "idle" /\ mem_lock = "free" /\ model_lock = "free"

\* the final persistence is about to run
C13_Witness ==
    /\ main_pc = "final_save" /\ col_episode_n = total_episodes /\ memory.size > 0

RECURSIVE SumTo(_, _)
SumTo(f, n) == IF n = 0 THEN 0 ELSE f[n] + SumTo(f, n - 1)

\* the main thread has dequeued a request and not yet answered it
MainAnswering == main_pc \in {"lock_predict", "predict", "respond"}
\* the main thread has dequeued a request and not yet begun its train step
MainBeforeTrain ==
    \/ MainAnswering
    \/ main_pc \in {"lock_mem", "lock_model"}
    \/ main_pc = "train" /\ tac = "idle"

\* C14: every request dequeued by the main loop gets exactly one response, put
\* on the response queue of the pid the request carries; one train step is
\* attempted before the next request is dequeued, so that train calls and
\* requests served are equal in number.
C14_RequestResponse ==
    /\ \A p \in Pids : \A i \in 1..Len(act_res_Qs[p]) :
          act_res_Qs[p][i].qval.of.pid = p
    /\ \A p \in Pids :
          served[p] - responded[p] =
             IF MainAnswering /\ requester_id = p THEN 1 ELSE 0
    /\ SumTo(served, NumSamplers) - n_calls =
             IF MainBeforeTrain THEN 1 ELSE 0

\* both samplers have been served and the loop is between two requests
C14_Witness ==
    /\ main_pc = "check" /\ served[1] >= 1 /\ served[2] >= 1
    /\ responded = served /\ n_calls = served[1] + served[2]

\* set_state has returned
SetStateDone == load_pc = "done" /\ model_dir = "dir"

\* C15: set_state with no buffer snapshot found, or with force_overwrite,
\* ends with target's actor layers equal to actor's and the critic layers of
\* target and of the actor equal to critic's, the critic and the actor layers
\* being those of the files; with a buffer snapshot loaded and no
\* force_overwrite each model keeps the weights of its own file.
C15_RestoreOverwrite ==
    SetStateDone =>
        /\ mem_loaded = files.exists["memory.npz"]
        /\ critic = files.critic
        /\ \A l \in ActorNames : actor[l] = files.actor[l]
        /\ IF ~mem_loaded \/ config.force_overwrite
           THEN /\ \A l \in ActorNames : target[l] = actor[l]
                /\ \A l \in CriticNames :
                      target[l] = critic[l] /\ actor[l] = critic[l]
           ELSE actor = files.actor /\ target = files.target

\* weights were loaded without a buffer snapshot and the embedded critics,
\* which differed in the files, now equal the critic
C15_Witness ==
    /\ SetStateDone /\ ~mem_loaded /\ ~config.force_overwrite
    /\ files.actor["qval"] # files.critic["qval"]
    /\ files.target["action"] # files.actor["action"]
    /\ actor["qval"] = critic["qval"] /\ target["action"] = actor["action"]

\* C16: a load whose snapshot file does not exist is skipped: it raises no
\* error and leaves the buffer or the model it would have loaded unchanged.
C16_MissingSnapshotSkipped ==
    [][/\ (load_pc = "load_memory" /\ model_dir = "dir"
               /\ ~files.exists["memory.npz"])
            => (load_pc' # "error" /\ memory' = memory)
       /\ (load_pc = "load_actor" /\ ~files.exists["actor.h5"])
            => (load_pc' # "error" /\ actor' = actor)
       /\ (load_pc = "load_critic" /\ ~files.exists["critic.h5"])
            => (load_pc' # "error" /\ critic' = critic)
       /\ (load_pc = "load_target" /\ ~files.exists["target.h5"])
            => (load_pc' # "error" /\ target' = target)]_vars

\* C17: after any sequence of memory.store calls on a buffer of capacity C
\* the size is at most C and the buffer holds, in order, the min(n, C) most
\* recently stored of the n transitions: a store at capacity overwrites the
\* oldest entry.
C17_FifoOverwrite ==
    /\ memory.size <= config.memory_capacity
    /\ memory.size = Min(n_stored, config.memory_capacity)
    /\ memory.size = Len(memory.data)
    /\ memory.data =
          LastN(stored, Min(Len(stored), config.memory_capacity))

\* more transitions than the capacity were stored, the first of them
\* distinct from what the buffer now holds
C17_Witness ==
    /\ n_stored > config.memory_capacity
    /\ memory.size = config.memory_capacity
    /\ memory.data[1] # memory.data[2]
    /\ episode_n = 1 /\ ~MemLast(memory).done

\* C18: the regression target of _train_critic is the scaled reward plus
\* gamma times the target network's value of ob1 when done is false, and
\* exactly the scaled reward when done is true; the target network read is
\* the one before the target update of the same train step.
C18_CriticTarget ==
    tac \in {"actor", "target"} =>
        critic_y = <<IF batch.done
                     THEN batch.reward * config.reward_scale * TauDen
                     ELSE batch.reward * config.reward_scale * TauDen
                            + config.gamma * FutureQ(target)>>

\* a terminal transition was sampled while the target network has a value
\* to offer, and the target update of the step is still to come
C18_Witness ==
    /\ tac = "target" /\ batch.done /\ batch.reward = 1
    /\ FutureQ(target) # 0 /\ n_trained = 2

\* the collector holds a dequeued transition it has not yet stored
ColHoldsMsg == col_pc \in {"lock_mem", "store"}

C20_QvalOfOwnRequest ==
    ColHoldsMsg =>
        col_episode_qval[col_msg.pid] = <<Predict(col_msg.observation)>>

\* the locks a thread holds
HeldBy(t) ==
    {l \in {"mem_lock", "model_lock"} :
        (l = "mem_lock" /\ mem_lock = t) \/ (l = "model_lock" /\ model_lock = t)}
\* the lock the collector is waiting to acquire, if any
ColWants ==
    IF col_pc \in {"lock_mem", "lock_mem2"} THEN {"mem_lock"}
    ELSE IF col_pc = "lock_model" THEN {"model_lock"} ELSE {}
\* the lock the main thread is waiting to acquire, if any
MainWants ==
    IF main_pc = "lock_mem" THEN {"mem_lock"}
    ELSE IF main_pc \in {"lock_predict", "lock_model"} THEN {"model_lock"}
    ELSE {}

\* C21: in multi_learn the collector never requests mem_lock or model_lock
\* while holding the other, the main thread requests model_lock while holding
\* a lock only in the order mem_lock then model_lock, neither thread is at a
\* blocking queue get or put while holding a lock, and in no state does each
\* thread wait for a lock the other holds.
C21_LockDiscipline ==
    /\ ColWants # {} => HeldBy("col") = {}
    /\ Cardinality(HeldBy("col")) <= 1
    /\ main_pc \in {"lock_predict", "lock_mem"} => HeldBy("main") = {}
    /\ main_pc = "lock_model" => HeldBy("main") = {"mem_lock"}
    /\ model_lock = "main" /\ main_pc # "predict" => mem_lock = "main"
    /\ main_pc \in {"check", "get", "respond", "join", "join_samplers"} =>
          HeldBy("main") = {}
    /\ col_pc \in {"loop", "get", "exit"} => HeldBy("col") = {}
    /\ ~(/\ ColWants # {} /\ ColWants \subseteq HeldBy("main")
         /\ MainWants # {} /\ MainWants \subseteq HeldBy("col"))

\* the main thread, holding mem_lock, waits for model_lock while the collector
\* saves the models
C21_Witness ==
    /\ main_pc = "lock_model" /\ mem_lock = "main"
    /\ col_pc = "save_models" /\ model_lock = "col"

\* the call of train_actor_critic that is starting meets the warm-up condition
GateClosed ==
    /\ TrainCalled /\ tac = "idle"
    /\ \/ pc = "train" /\ force_learn /\ memory.size < 3 * config.batch_size
       \/ ~(pc = "train" /\ force_learn) /\ memory.size < config.memory_warmup

\* C22: a call of train_actor_critic made with force_learn false and
\* memory.size < memory_warmup, or with force_learn true and memory.size <
\* 3*batch_size, returns (0, None) without sampling the buffer and leaves the
\* actor, critic and target weights and target_update_counter as they were.
C22_WarmupGateFrame ==
    [][(GateClosed /\ tac' # tac) =>
          /\ tac' = "returned"
          /\ tac_ret' = [loss |-> "0", h |-> "None"]
          /\ batch' = NoBatch /\ batch = NoBatch
          /\ UNCHANGED <<actor, critic, target, target_update_counter>>
          /\ UNCHANGED <<memory, n_trained, n_copies>>]_vars

\* a forced call was skipped with two transitions stored, fewer than
\* 3*batch_size although memory_warmup is met, and the periodic counter has
\* not advanced
C22_Witness ==
    /\ pc = "train" /\ tac = "returned" /\ force_learn
    /\ memory.size = 2 /\ config.memory_warmup = 0 /\ n_calls = 2
    /\ tac_ret = [loss |-> "0", h |-> "None"]
    /\ target_update_counter = 0 /\ n_trained = 0

\* the stored transition ended its episode: the environment said so or the
\* step limit was reached
LastOfEpisode(tr) == tr.done \/ tr.step >= config.max_steps

\* C23: in single_learn the done flag stored with a transition is the one
\* env.step returned for that step, a termination forced only by
\* episode_steps >= max_steps is stored as not done, and the stored step
\* index is the 1-based number of the step within its episode.
C23_StoredDoneFlag ==
    (pc \in {"loop", "train", "episode_end", "returned", "done"}
        /\ n_stored > 0) =>
        /\ MemLast(memory) = stored[Len(stored)]
        /\ pc \in {"train", "episode_end", "returned"} =>
              /\ MemLast(memory).done = done
              /\ MemLast(memory).step = episode_steps
        /\ (pc \in {"loop", "done"} /\ episode_steps = 0) =>
              /\ MemLast(memory).done = env_done_last
              /\ <<MemLast(memory).step>> = steps_hist
        /\ n_stored <= config.memory_capacity => stored[1].step = 1
        /\ \A i \in 1..(Len(stored) - 1) :
              stored[i + 1].step =
                  IF LastOfEpisode(stored[i]) THEN 1 ELSE stored[i].step + 1

\* an episode was ended by the step limit alone and its last transition is
\* stored as not done, with step index max_steps
C23_Witness ==
    /\ pc = "loop" /\ episode_n = 1 /\ episode_steps = 0
    /\ ~env_done_last /\ steps_hist = <<config.max_steps>>
    /\ config.max_steps = 2
    /\ ~MemLast(memory).done /\ MemLast(memory).step = 2

\* C24: in single_learn a stored transition that is not the first of its
\* episode has as ob0 the ob1 of the transition stored before it, and the
\* first transition of an episode has as ob0 the processed observation the
\* environment's reset returned for that episode, processed by a freshly
\* reset ob_processor, never an observation of the episode before.
C24_ObservationChaining ==
    pc \in {"loop", "store", "train", "episode_end", "returned", "done"} =>
        /\ memory.data = stored
        /\ \A i \in 1..Len(stored) :
              /\ stored[i].ob1.raw = [reset |-> stored[i].ob0.raw.reset,
                                      step |-> stored[i].step]
              /\ IF stored[i].step = 1
                 THEN /\ stored[i].ob0 =
                            ProcessOb(ProcessorReset,
                                      [reset |-> stored[i].ob1.raw.reset,
                                       step |-> 0])
                      /\ i > 1 => stored[i].ob0.raw.reset =
                                      stored[i - 1].ob1.raw.reset + 1
                 ELSE i > 1 => stored[i].ob0 = stored[i - 1].ob1

\* two transitions of the first episode and the first one of the second are
\* in the buffer
C24_Witness ==
    /\ pc = "train" /\ Len(stored) = 3
    /\ stored[1].step = 1 /\ stored[2].step = 2 /\ stored[3].step = 1
    /\ stored[2].ob0 = stored[1].ob1
    /\ stored[3].ob0.raw = [reset |-> 2, step |-> 0]

\* the main thread has left the loop of multi_learn
MainLeftLoop == main_pc \in {"join", "join_samplers", "final_save", "done"}

\* C25: in multi_learn the main thread dequeues at most one request from
\* act_req_q after should_cont has been set to false, and when it leaves the
\* loop every request it dequeued has had its response put and its train step
\* run to its return.
C25_BoundedPostShutdown ==
    /\ served_after <= 1
    /\ served_after > 0 => ~should_cont /\ col_pc = "exit"
    /\ MainLeftLoop =>
          /\ ~should_cont
          /\ responded = served
          /\ n_calls = SumTo(served, NumSamplers)
          /\ tac = "idle" /\ mem_lock = "free" /\ model_lock = "free"

\* the main thread has left the loop after serving one request that it
\* dequeued with the flag already cleared
C25_Witness ==
    /\ main_pc = "join" /\ served_after = 1
    /\ responded = served /\ n_calls = SumTo(served, NumSamplers)


====
